---- MODULE Spec2Model ----
(***************************************************************************)
(* StreamVault database layer (src/app/db.py): the transaction() context   *)
(* manager with its retry-on-deadlock loop, the backoff delay function and *)
(* the in-memory read-through query cache.                                 *)
(***************************************************************************)
EXTENDS Integers, Sequences, FiniteSets, TLC

(***************************************************************************)
(* Program constants                                                       *)
(***************************************************************************)
MYSQL_ERROR_DEADLOCK == 1213
MYSQL_ERROR_LOCK_WAIT_TIMEOUT == 1205
DEADLOCK_MAX_RETRIES == 3

(***************************************************************************)
(* Bounds                                                                  *)
(***************************************************************************)
\* number of write statements in the caller's block
NStmts == 2
\* number of requests that use transaction() one after the other
MaxUses == 2
\* an errno that is neither of the two lock-conflict codes
OtherErrno == 1062

(***************************************************************************)
(* Exceptions.  cls is the most specific of the three classes the code     *)
(* distinguishes: "Error" is mysql.connector.Error (an Exception),         *)
(* "Exception" any other Exception, "BaseException" an exception that is   *)
(* not an Exception (KeyboardInterrupt, SystemExit).  errno is the value   *)
(* of the errno attribute, which any class may carry.                      *)
(***************************************************************************)
Errnos == {MYSQL_ERROR_DEADLOCK, MYSQL_ERROR_LOCK_WAIT_TIMEOUT, OtherErrno}
Exceptions == [cls : {"Error", "Exception", "BaseException"}, errno : Errnos]
DbErrors == {e \in Exceptions : e.cls = "Error"}
NoExc == [cls |-> "none", errno |-> 0]
DeadlockError == [cls |-> "DeadlockError", errno |-> 0]
RuntimeError == [cls |-> "RuntimeError", errno |-> 0]
\* what one execution of the block does: complete, or raise an exception
Outcomes == {NoExc} \cup Exceptions
\* a block: what its 1st, 2nd, 3rd execution does
Blocks == [1..DEADLOCK_MAX_RETRIES -> Outcomes]

VARIABLES
    pc,             \* position of the current use of transaction()
    use,            \* number of uses started so far
    block,          \* the caller's block of the current use
    attempt,        \* loop variable of the retry loop
    stmtIdx,        \* statements of the block executed in this execution
    pending,        \* writes of the connection's open transaction
    committed,      \* committed writes of the database
    exc,            \* exception in flight inside the generator (e)
    last_exception, \* last_exception of transaction()
    raised,         \* what the with-statement raised to the caller
    trace,          \* calls made during the current use, in order
    dCalled,        \* whether _calculate_retry_delay has been called
    dAttempt,       \* argument of the last _calculate_retry_delay call
    dRandom,        \* numerator of the value random.random() returned in it
    dDelay,         \* the delay it returned, in units of 1/(4*JitterSteps) ms
    _query_cache,       \* module global: cache key -> stored result
    _cache_timestamps,  \* module global: cache key -> time of storing
    now,            \* time.time()
    ticks,          \* number of clock advances so far
    dbver,          \* version of the data the live query reads
    CACHE_ENABLED,  \* app.config['CACHE_ENABLED']
    lastOp,         \* the last cache operation and what it returned
    session,        \* the Flask session of the client
    tableVer,       \* version of each table the cached queries read
    lastReq,        \* the last request: handler, session, outcome
    req,            \* per worker thread: the request it serves and its flask.g
    conns,          \* the database connections opened so far
    closed,         \* the connections that were closed
    thr,            \* per thread: its position in a cache operation
    overlapped,     \* whether two cache operations ever ran at the same time
    resetTokens,    \* the rows of GRN_PASSWORD_RESET, by token
    password_hash,  \* GRN_LOGIN.PASSWORD_HASH of the account
    clock,          \* datetime.now(), in minutes
    clockTicks,     \* how often the clock advanced
    spent,          \* the tokens a password was changed with
    lastReset,      \* the last reset_password request and its outcome
    lastForgot,     \* the last forgot_password request and its response
    rthr,           \* per thread: its position in a reset_password POST
    changed         \* the threads whose reset changed the password

txVars == <<pc, use, block, attempt, stmtIdx, pending, committed, exc,
            last_exception, raised, trace>>
delayVars == <<dCalled, dAttempt, dRandom, dDelay>>
cacheVars == <<_query_cache, _cache_timestamps, now, ticks, dbver,
               CACHE_ENABLED, lastOp>>
routeVars == <<session, tableVer, lastReq>>
\* the variables of the request handlers around the database layer
connVars == <<req, conns, closed>>
tornVars == <<thr, overlapped>>
resetVars == <<resetTokens, password_hash, clock, clockTicks, spent, lastReset>>
authVars == <<lastForgot, rthr, changed>>
extVars == <<routeVars, connVars, tornVars, resetVars, authVars>>
\* everything but the connection variables
nonConnVars == <<txVars, delayVars, cacheVars, routeVars, tornVars, resetVars,
                 authVars>>
\* what the route handlers leave alone besides the database layer
nonRouteExt == <<connVars, tornVars, resetVars, authVars>>
\* what the cache operations leave alone besides the database layer
nonTornExt == <<routeVars, connVars, resetVars, authVars>>
vars == <<txVars, delayVars, cacheVars, extVars>>

(***************************************************************************)
(* Helpers over the call trace                                             *)
(***************************************************************************)
RECURSIVE Count(_, _)
Count(s, ev) ==
    IF s = <<>> THEN 0
    ELSE (IF Head(s) = ev THEN 1 ELSE 0) + Count(Tail(s), ev)

execs == Count(trace, "exec")
commits == Count(trace, "commit")
rollbacks == Count(trace, "rollback")
sleeps == Count(trace, "sleep")
retries == Count(trace, "continue")

\* writes of the block of use u
BlockWrites(u) == {<<u, i>> : i \in 1..NStmts}

(***************************************************************************)
(* _is_deadlock_error                                                      *)
(***************************************************************************)
IsDeadlockErrnoOnly(e) ==
    e.errno \in {MYSQL_ERROR_DEADLOCK, MYSQL_ERROR_LOCK_WAIT_TIMEOUT}

\* _is_deadlock_error that knows the deadlock code only
IsDeadlockOnly(e) ==
    IF e.cls = "Error"
    THEN e.errno = MYSQL_ERROR_DEADLOCK
    ELSE FALSE

_is_deadlock_error(e) ==
    IF e.cls = "Error"
    THEN e.errno \in {MYSQL_ERROR_DEADLOCK, MYSQL_ERROR_LOCK_WAIT_TIMEOUT}
    ELSE FALSE

\* "except Exception as e": Error and Exception are caught, BaseException is not
CaughtByExcept(e) == e.cls \in {"Error", "Exception"}

(***************************************************************************)
(* _calculate_retry_delay.  random.random() returns r / JitterSteps for an *)
(* r in 0..JitterSteps-1, a value of [0, 1).  Delays are exact rationals,  *)
(* held as integers in units of 1/(4*JitterSteps) milliseconds:            *)
(*   delay + delay*0.25*(2*r/J - 1) = delay * (3*J + 2*r) / (4*J)          *)
(***************************************************************************)
\* DEADLOCK_RETRY_BASE_DELAY = 0.1 s and DEADLOCK_RETRY_MAX_DELAY = 1.0 s, in ms
DEADLOCK_RETRY_BASE_DELAY == 100
DEADLOCK_RETRY_MAX_DELAY == 1000
\* resolution of random.random()
JitterSteps == 16
\* largest attempt index _calculate_retry_delay is called with
MaxAttemptArg == 7
DelayUnit == 4 * JitterSteps

Min(a, b) == IF a <= b THEN a ELSE b

RECURSIVE Pow2(_)
Pow2(n) == IF n = 0 THEN 1 ELSE 2 * Pow2(n - 1)

\* the delay without the final min(delay, DEADLOCK_RETRY_MAX_DELAY)
UncappedRetryDelay(att, r) ==
    DEADLOCK_RETRY_BASE_DELAY * Pow2(att) * (3 * JitterSteps + 2 * r)

_calculate_retry_delay(att, r) ==
    LET delay == DEADLOCK_RETRY_BASE_DELAY * Pow2(att)
        \* jitter = delay * 0.25 * (random.random() * 2 - 1), times DelayUnit
        jitter == delay * (2 * r - JitterSteps)
        jittered == delay * DelayUnit + jitter
    IN  Min(jittered, DEADLOCK_RETRY_MAX_DELAY * DelayUnit)

DelayInit ==
    /\ dCalled = FALSE
    /\ dAttempt = 0
    /\ dRandom = 0
    /\ dDelay = 0

\* one call _calculate_retry_delay(att), random.random() returning r/JitterSteps
CalculateRetryDelay ==
    /\ \E att \in 0..MaxAttemptArg, r \in 0..(JitterSteps - 1) :
          /\ dCalled' = TRUE
          /\ dAttempt' = att
          /\ dRandom' = r
          /\ dDelay' = _calculate_retry_delay(att, r)
    /\ UNCHANGED <<txVars, cacheVars>>
    /\ UNCHANGED extVars

(***************************************************************************)
(* transaction()                                                           *)
(***************************************************************************)
TxInit ==
    /\ pc = "idle"
    /\ use = 0
    /\ block = [i \in 1..DEADLOCK_MAX_RETRIES |-> NoExc]
    /\ attempt = 0
    /\ stmtIdx = 0
    /\ pending = {}
    /\ committed = {}
    /\ exc = NoExc
    /\ last_exception = NoExc
    /\ raised = NoExc
    /\ trace = <<>>

\* "with transaction() as cursor:": __enter__ runs the generator to its first
\* yield (db = get_db(), attempt = 0, cursor = db.cursor()) and the block starts
Enter ==
    /\ UNCHANGED <<delayVars, cacheVars>>
    /\ UNCHANGED extVars
    /\ pc = "idle"
    /\ use < MaxUses
    /\ \E b \in Blocks : block' = b
    /\ use' = use + 1
    /\ attempt' = 0
    /\ stmtIdx' = 0
    /\ exc' = NoExc
    /\ last_exception' = NoExc
    /\ raised' = NoExc
    /\ trace' = <<"exec">>
    /\ pc' = "block"
    /\ UNCHANGED <<pending, committed>>

\* a statement of the block on a connection with autocommit on
BlockStmtAutocommit ==
    /\ UNCHANGED <<delayVars, cacheVars>>
    /\ UNCHANGED extVars
    /\ pc = "block"
    /\ stmtIdx < NStmts
    /\ stmtIdx' = stmtIdx + 1
    /\ pending' = pending
    /\ committed' = committed \cup {<<use, stmtIdx + 1>>}
    /\ UNCHANGED <<pc, use, block, attempt, exc, last_exception,
                   raised, trace>>

\* the block executes its next statement through the cursor
BlockStmt ==
    /\ UNCHANGED <<delayVars, cacheVars>>
    /\ UNCHANGED extVars
    /\ pc = "block"
    /\ stmtIdx < NStmts
    /\ stmtIdx' = stmtIdx + 1
    /\ pending' = pending \cup {<<use, stmtIdx + 1>>}
    /\ UNCHANGED <<pc, use, block, attempt, committed, exc, last_exception,
                   raised, trace>>

\* the block raises, at a statement or between statements: __exit__ throws the
\* exception into the generator at the yield
BlockRaise ==
    /\ UNCHANGED <<delayVars, cacheVars>>
    /\ UNCHANGED extVars
    /\ pc = "block"
    /\ block[execs] # NoExc
    /\ exc' = block[execs]
    /\ pc' = "except"
    /\ UNCHANGED <<use, block, attempt, stmtIdx, pending, committed,
                   last_exception, raised, trace>>

\* the block completes: __exit__ resumes the generator after the yield
BlockReturn ==
    /\ UNCHANGED <<delayVars, cacheVars>>
    /\ UNCHANGED extVars
    /\ pc = "block"
    /\ block[execs] = NoExc
    /\ stmtIdx = NStmts
    /\ pc' = "commit"
    /\ UNCHANGED <<use, block, attempt, stmtIdx, pending, committed, exc,
                   last_exception, raised, trace>>

\* db.commit(); return.  The commit either succeeds, the generator returns and
\* the with-statement ends normally, or it raises a database error, which the
\* except clause of the same try catches
Commit ==
    /\ UNCHANGED <<delayVars, cacheVars>>
    /\ UNCHANGED extVars
    /\ pc = "commit"
    /\ \/ /\ committed' = committed \cup pending
          /\ pending' = {}
          /\ trace' = Append(trace, "commit")
          /\ raised' = NoExc
          /\ pc' = "done"
          /\ exc' = exc
       \/ /\ \E e \in DbErrors : exc' = e
          /\ trace' = Append(Append(trace, "commit"), "commit_raised")
          /\ pc' = "except"
          /\ UNCHANGED <<pending, committed, raised>>
    /\ UNCHANGED <<use, block, attempt, stmtIdx, last_exception>>

\* the except clause with db.commit() in place of db.rollback()
RollbackCommits ==
    /\ UNCHANGED <<delayVars, cacheVars>>
    /\ UNCHANGED extVars
    /\ pc = "except"
    /\ IF CaughtByExcept(exc)
       THEN /\ trace' = Append(trace, "rollback")
            /\ committed' = committed \cup pending
            /\ pending' = {}
            /\ pc' = "classify"
            /\ raised' = raised
       ELSE /\ raised' = exc
            /\ pc' = "done"
            /\ UNCHANGED <<pending, committed, trace>>
    /\ UNCHANGED <<use, block, attempt, stmtIdx, exc, last_exception>>

\* the except clause without its db.rollback() call
RollbackOmitted ==
    /\ UNCHANGED <<delayVars, cacheVars>>
    /\ UNCHANGED extVars
    /\ pc = "except"
    /\ IF CaughtByExcept(exc)
       THEN /\ pc' = "classify"
            /\ raised' = raised
       ELSE /\ raised' = exc
            /\ pc' = "done"
    /\ UNCHANGED <<use, block, attempt, stmtIdx, pending, committed, exc,
                   last_exception, trace>>

\* except Exception as e: try: db.rollback() except: pass.  A failing rollback
\* is ignored and leaves the open transaction as it is.  An exception that
\* is not an Exception is not caught: the finally clause closes the cursor and
\* the exception leaves the generator, so the with-statement raises it
Rollback ==
    /\ UNCHANGED <<delayVars, cacheVars>>
    /\ UNCHANGED extVars
    /\ pc = "except"
    /\ IF CaughtByExcept(exc)
       THEN /\ trace' = Append(trace, "rollback")
            /\ \E ok \in BOOLEAN : pending' = IF ok THEN {} ELSE pending
            /\ pc' = "classify"
            /\ raised' = raised
       ELSE /\ raised' = exc
            /\ pc' = "done"
            /\ UNCHANGED <<pending, trace>>
    /\ UNCHANGED <<use, block, attempt, stmtIdx, committed, exc,
                   last_exception>>

\* if _is_deadlock_error(e): ... else: raise
Classify ==
    /\ UNCHANGED <<delayVars, cacheVars>>
    /\ UNCHANGED extVars
    /\ pc = "classify"
    /\ IF _is_deadlock_error(exc)
       THEN /\ last_exception' = exc
            /\ IF attempt < DEADLOCK_MAX_RETRIES - 1
               THEN /\ pc' = "sleep"
                    /\ raised' = raised
               ELSE /\ pc' = "done"
                    /\ raised' = DeadlockError
       ELSE /\ pc' = "done"
            /\ raised' = exc
            /\ last_exception' = last_exception
    /\ UNCHANGED <<use, block, attempt, stmtIdx, pending, committed, exc,
                   trace>>

\* delay = _calculate_retry_delay(attempt); time.sleep(delay)
Sleep ==
    /\ UNCHANGED cacheVars
    /\ UNCHANGED extVars
    /\ pc = "sleep"
    /\ \E r \in 0..(JitterSteps - 1) :
          /\ dCalled' = TRUE
          /\ dAttempt' = attempt
          /\ dRandom' = r
          /\ dDelay' = _calculate_retry_delay(attempt, r)
    /\ trace' = Append(trace, "sleep")
    /\ pc' = "continue"
    /\ UNCHANGED <<use, block, attempt, stmtIdx, pending, committed, exc,
                   last_exception, raised>>

\* continue: the finally clause closes the cursor, the loop takes the next
\* attempt, opens a cursor and reaches the yield a second time.  The generator
\* is driven by contextlib's __exit__, which expects it to stop: a second yield
\* makes __exit__ raise RuntimeError("generator didn't stop after throw()").
\* The block is not executed again.
Continue ==
    /\ UNCHANGED <<delayVars, cacheVars>>
    /\ UNCHANGED extVars
    /\ pc = "continue"
    /\ attempt' = attempt + 1
    /\ trace' = Append(trace, "continue")
    /\ raised' = RuntimeError
    /\ pc' = "done"
    /\ UNCHANGED <<use, block, stmtIdx, pending, committed, exc,
                   last_exception>>

\* the request ends: the connection kept in flask.g goes away with the request
\* and its open transaction is never committed; the generator's locals are gone
EndRequest ==
    /\ UNCHANGED cacheVars
    /\ UNCHANGED extVars
    /\ pc = "done"
    /\ pc' = "idle"
    /\ pending' = {}
    /\ block' = [i \in 1..DEADLOCK_MAX_RETRIES |-> NoExc]
    /\ attempt' = 0
    /\ stmtIdx' = 0
    /\ exc' = NoExc
    /\ last_exception' = NoExc
    /\ raised' = NoExc
    /\ trace' = <<>>
    /\ dCalled' = FALSE
    /\ dAttempt' = 0
    /\ dRandom' = 0
    /\ dDelay' = 0
    /\ UNCHANGED <<use, committed>>

TxNext ==
    \/ Enter
    \/ BlockStmt
    \/ BlockRaise
    \/ BlockReturn
    \/ Commit
    \/ Rollback
    \/ Classify
    \/ Sleep
    \/ Continue
    \/ EndRequest

(***************************************************************************)
(* Query cache: execute_cached_query, invalidate_cache, get_cache_stats    *)
(***************************************************************************)
\* config default of CACHE_TTL
CACHE_TTL == 300
\* cache keys the callers use; NoKey is the absent key (None or '')
Keys == {"top_rating", "ph_stats"}
NoKey == ""
KeyArgs == Keys \cup {NoKey}
\* ttl arguments of a call; NoTtl is the absent ttl (None or 0)
NoTtl == 0
ShortTtl == 2
TtlArgs == {NoTtl, ShortTtl, CACHE_TTL}
\* steps by which the clock advances between calls
LongTick == CACHE_TTL - 1
TickDeltas == {1, LongTick}
\* number of clock advances
MaxTicks == 3
\* number of committed writes to the data the queries read
MaxVer == 1

\* a result the live query cannot return: marks "no value"
NoResult == -1
NoOp == [op |-> "none", key |-> NoKey, ttl |-> NoTtl, present |-> FALSE,
         ret |-> NoResult, executed |-> FALSE, raised |-> FALSE]

\* dict.pop(k, None)
Pop(d, k) == [x \in (DOMAIN d) \ {k} |-> d[x]]
\* d[k] = v
Store(d, k, v) == [x \in (DOMAIN d) \cup {k} |-> IF x = k THEN v ELSE d[x]]
\* dict.get(k, default)
Get(d, k, default) == IF k \in DOMAIN d THEN d[k] ELSE default
EmptyDict == [x \in {} |-> NoResult]

\* ttl = ttl or current_app.config.get('CACHE_TTL', 300)
EffectiveTtl(ttl) == IF ttl = NoTtl THEN CACHE_TTL ELSE ttl

\* the freshness test with <= in place of <
IsFreshInclusive(k, ttl) ==
    /\ k \in DOMAIN _query_cache
    /\ now - Get(_cache_timestamps, k, 0) <= EffectiveTtl(ttl)

\* if cache_key in _query_cache: cache_time = _cache_timestamps.get(cache_key, 0)
\*     if current_time - cache_time < ttl
IsFresh(k, ttl) ==
    /\ k \in DOMAIN _query_cache
    /\ now - Get(_cache_timestamps, k, 0) < EffectiveTtl(ttl)

\* get_cache_stats()
get_cache_stats ==
    [entries |-> Cardinality(DOMAIN _query_cache), keys |-> DOMAIN _query_cache]

CacheInit ==
    /\ _query_cache = EmptyDict
    /\ _cache_timestamps = EmptyDict
    /\ now = 0
    /\ ticks = 0
    /\ dbver = 0
    /\ CACHE_ENABLED \in BOOLEAN
    /\ lastOp = NoOp

\* execute_cached_query that answers from any stored entry, however old
CachedQueryServesStale(k, ttl, queryOk, live) ==
    IF ~CACHE_ENABLED \/ k = NoKey
    THEN /\ lastOp' = [op |-> "query", key |-> k, ttl |-> ttl,
                       present |-> k \in DOMAIN _query_cache,
                       ret |-> IF queryOk THEN live ELSE NoResult,
                       executed |-> TRUE, raised |-> ~queryOk]
         /\ UNCHANGED <<_query_cache, _cache_timestamps>>
    ELSE IF k \in DOMAIN _query_cache
    THEN /\ lastOp' = [op |-> "query", key |-> k, ttl |-> ttl,
                       present |-> k \in DOMAIN _query_cache,
                       ret |-> _query_cache[k],
                       executed |-> FALSE, raised |-> FALSE]
         /\ UNCHANGED <<_query_cache, _cache_timestamps>>
    ELSE IF queryOk
    THEN /\ _query_cache' = Store(_query_cache, k, live)
         /\ _cache_timestamps' = Store(_cache_timestamps, k, now)
         /\ lastOp' = [op |-> "query", key |-> k, ttl |-> ttl,
                       present |-> k \in DOMAIN _query_cache, ret |-> live,
                       executed |-> TRUE, raised |-> FALSE]
    ELSE /\ lastOp' = [op |-> "query", key |-> k, ttl |-> ttl,
                       present |-> k \in DOMAIN _query_cache, ret |-> NoResult,
                       executed |-> TRUE, raised |-> TRUE]
         /\ UNCHANGED <<_query_cache, _cache_timestamps>>

\* execute_cached_query that caches whatever CACHE_ENABLED says
CachedQueryIgnoresConfig(k, ttl, queryOk, live) ==
    IF k = NoKey
    THEN /\ lastOp' = [op |-> "query", key |-> k, ttl |-> ttl,
                       present |-> k \in DOMAIN _query_cache,
                       ret |-> IF queryOk THEN live ELSE NoResult,
                       executed |-> TRUE, raised |-> ~queryOk]
         /\ UNCHANGED <<_query_cache, _cache_timestamps>>
    ELSE IF IsFresh(k, ttl)
    THEN /\ lastOp' = [op |-> "query", key |-> k, ttl |-> ttl,
                       present |-> k \in DOMAIN _query_cache,
                       ret |-> _query_cache[k],
                       executed |-> FALSE, raised |-> FALSE]
         /\ UNCHANGED <<_query_cache, _cache_timestamps>>
    ELSE IF queryOk
    THEN /\ _query_cache' = Store(_query_cache, k, live)
         /\ _cache_timestamps' = Store(_cache_timestamps, k, now)
         /\ lastOp' = [op |-> "query", key |-> k, ttl |-> ttl,
                       present |-> k \in DOMAIN _query_cache, ret |-> live,
                       executed |-> TRUE, raised |-> FALSE]
    ELSE /\ lastOp' = [op |-> "query", key |-> k, ttl |-> ttl,
                       present |-> k \in DOMAIN _query_cache, ret |-> NoResult,
                       executed |-> TRUE, raised |-> TRUE]
         /\ UNCHANGED <<_query_cache, _cache_timestamps>>

\* execute_cached_query that stores the result without its timestamp
CachedQueryNoTimestamp(k, ttl, queryOk, live) ==
    IF ~CACHE_ENABLED \/ k = NoKey
    THEN /\ lastOp' = [op |-> "query", key |-> k, ttl |-> ttl,
                       present |-> k \in DOMAIN _query_cache,
                       ret |-> IF queryOk THEN live ELSE NoResult,
                       executed |-> TRUE, raised |-> ~queryOk]
         /\ UNCHANGED <<_query_cache, _cache_timestamps>>
    ELSE IF IsFresh(k, ttl)
    THEN /\ lastOp' = [op |-> "query", key |-> k, ttl |-> ttl,
                       present |-> k \in DOMAIN _query_cache,
                       ret |-> _query_cache[k],
                       executed |-> FALSE, raised |-> FALSE]
         /\ UNCHANGED <<_query_cache, _cache_timestamps>>
    ELSE IF queryOk
    THEN /\ _query_cache' = Store(_query_cache, k, live)
         /\ _cache_timestamps' = _cache_timestamps
         /\ lastOp' = [op |-> "query", key |-> k, ttl |-> ttl,
                       present |-> k \in DOMAIN _query_cache, ret |-> live,
                       executed |-> TRUE, raised |-> FALSE]
    ELSE /\ lastOp' = [op |-> "query", key |-> k, ttl |-> ttl,
                       present |-> k \in DOMAIN _query_cache, ret |-> NoResult,
                       executed |-> TRUE, raised |-> TRUE]
         /\ UNCHANGED <<_query_cache, _cache_timestamps>>

\* execute_cached_query that drops the entry when the live query raises
CachedQueryDropsOnError(k, ttl, queryOk, live) ==
    IF ~CACHE_ENABLED \/ k = NoKey
    THEN /\ lastOp' = [op |-> "query", key |-> k, ttl |-> ttl,
                       present |-> k \in DOMAIN _query_cache,
                       ret |-> IF queryOk THEN live ELSE NoResult,
                       executed |-> TRUE, raised |-> ~queryOk]
         /\ UNCHANGED <<_query_cache, _cache_timestamps>>
    ELSE IF IsFresh(k, ttl)
    THEN /\ lastOp' = [op |-> "query", key |-> k, ttl |-> ttl,
                       present |-> k \in DOMAIN _query_cache,
                       ret |-> _query_cache[k],
                       executed |-> FALSE, raised |-> FALSE]
         /\ UNCHANGED <<_query_cache, _cache_timestamps>>
    ELSE IF queryOk
    THEN /\ _query_cache' = Store(_query_cache, k, live)
         /\ _cache_timestamps' = Store(_cache_timestamps, k, now)
         /\ lastOp' = [op |-> "query", key |-> k, ttl |-> ttl,
                       present |-> k \in DOMAIN _query_cache, ret |-> live,
                       executed |-> TRUE, raised |-> FALSE]
    ELSE /\ lastOp' = [op |-> "query", key |-> k, ttl |-> ttl,
                       present |-> k \in DOMAIN _query_cache, ret |-> NoResult,
                       executed |-> TRUE, raised |-> TRUE]
         /\ _query_cache' = Pop(_query_cache, k)
         /\ _cache_timestamps' = Pop(_cache_timestamps, k)

\* the body of execute_cached_query(query, params, cache_key = k, ttl = ttl);
\* live is what execute_query returns now, queryOk says whether it returns the
\* rows or raises a database error
CachedQuery(k, ttl, queryOk, live) ==
    IF ~CACHE_ENABLED \/ k = NoKey
    THEN /\ lastOp' = [op |-> "query", key |-> k, ttl |-> ttl,
                       present |-> k \in DOMAIN _query_cache,
                       ret |-> IF queryOk THEN live ELSE NoResult,
                       executed |-> TRUE, raised |-> ~queryOk]
         /\ UNCHANGED <<_query_cache, _cache_timestamps>>
    ELSE IF IsFresh(k, ttl)
    THEN /\ lastOp' = [op |-> "query", key |-> k, ttl |-> ttl,
                       present |-> k \in DOMAIN _query_cache,
                       ret |-> _query_cache[k],
                       executed |-> FALSE, raised |-> FALSE]
         /\ UNCHANGED <<_query_cache, _cache_timestamps>>
    ELSE IF queryOk
    THEN /\ _query_cache' = Store(_query_cache, k, live)
         /\ _cache_timestamps' = Store(_cache_timestamps, k, now)
         /\ lastOp' = [op |-> "query", key |-> k, ttl |-> ttl,
                       present |-> k \in DOMAIN _query_cache, ret |-> live,
                       executed |-> TRUE, raised |-> FALSE]
    ELSE /\ lastOp' = [op |-> "query", key |-> k, ttl |-> ttl,
                       present |-> k \in DOMAIN _query_cache, ret |-> NoResult,
                       executed |-> TRUE, raised |-> TRUE]
         /\ UNCHANGED <<_query_cache, _cache_timestamps>>

\* one call of execute_cached_query, with any key and ttl
ExecuteCachedQuery ==
    /\ \E k \in KeyArgs, ttl \in TtlArgs, queryOk \in BOOLEAN :
          CachedQuery(k, ttl, queryOk, dbver)
    /\ UNCHANGED <<now, ticks, dbver, CACHE_ENABLED>>
    /\ UNCHANGED <<txVars, delayVars>>
    /\ UNCHANGED extVars

\* invalidate_cache that forgets the timestamp map
InvalidateResultsOnly(k) ==
    /\ IF k # NoKey
       THEN /\ _query_cache' = Pop(_query_cache, k)
            /\ _cache_timestamps' = _cache_timestamps
       ELSE /\ _query_cache' = EmptyDict
            /\ _cache_timestamps' = _cache_timestamps
    /\ lastOp' = [op |-> "invalidate", key |-> k, ttl |-> NoTtl,
                  present |-> k \in DOMAIN _query_cache, ret |-> NoResult,
                  executed |-> FALSE, raised |-> FALSE]

\* invalidate_cache(cache_key = k)
Invalidate(k) ==
    /\ IF k # NoKey
       THEN /\ _query_cache' = Pop(_query_cache, k)
            /\ _cache_timestamps' = Pop(_cache_timestamps, k)
       ELSE /\ _query_cache' = EmptyDict
            /\ _cache_timestamps' = EmptyDict
    /\ lastOp' = [op |-> "invalidate", key |-> k, ttl |-> NoTtl,
                  present |-> k \in DOMAIN _query_cache, ret |-> NoResult,
                  executed |-> FALSE, raised |-> FALSE]

InvalidateCache ==
    /\ \E k \in KeyArgs : Invalidate(k)
    /\ UNCHANGED <<now, ticks, dbver, CACHE_ENABLED>>
    /\ UNCHANGED <<txVars, delayVars>>
    /\ UNCHANGED extVars

\* time passes between two calls
Tick ==
    /\ ticks < MaxTicks
    /\ \E d \in TickDeltas : now' = now + d
    /\ ticks' = ticks + 1
    /\ lastOp' = NoOp
    /\ UNCHANGED <<_query_cache, _cache_timestamps, dbver, CACHE_ENABLED>>
    /\ UNCHANGED <<txVars, delayVars>>
    /\ UNCHANGED extVars

\* some request commits a change to the data the cached queries read
DbWrite ==
    /\ dbver < MaxVer
    /\ dbver' = dbver + 1
    /\ lastOp' = NoOp
    /\ UNCHANGED <<_query_cache, _cache_timestamps, now, ticks, CACHE_ENABLED>>
    /\ UNCHANGED <<txVars, delayVars>>
    /\ UNCHANGED extVars

CacheNext ==
    \/ ExecuteCachedQuery
    \/ InvalidateCache
    \/ Tick
    \/ DbWrite

(***************************************************************************)
(* Route handlers: sessions, decorators, writes and cached analytics       *)
(***************************************************************************)
NoRole == ""
\* session after session.clear()
NoSession == [user_id |-> FALSE, role |-> NoRole]
\* GRN_LOGIN.LOGIN_TYPE of the account that logs in
LoginTypes == {"CUSTOMER", "EMPLOYEE"}
\* the tables the cached analytics queries with a key in Keys read
CachedTables == {"GRN_WEB_SERIES", "GRN_EPISODE", "GRN_FEEDBACK",
                 "GRN_PRODUCTION_HOUSE"}
\* ttl=300 passed by every analytics endpoint
AnalyticsTtl == 300

\* a handler of routes_employee: @login_required, @role_required('EMPLOYEE')
EmployeeRoute(name, writes, inval) ==
    [name |-> name, login |-> TRUE, role |-> "EMPLOYEE", writes |-> writes,
     invalidates |-> inval, key |-> NoKey, reads |-> {}]
\* a handler of routes_analytics: same decorators, a read with a cache key
AnalyticsRoute(name, key, reads) ==
    [name |-> name, login |-> TRUE, role |-> "EMPLOYEE", writes |-> {},
     invalidates |-> FALSE, key |-> key, reads |-> reads]
\* a handler of routes_customer or auth: login is TRUE under @login_required
OtherRoute(name, login, role, writes) ==
    [name |-> name, login |-> login, role |-> role, writes |-> writes,
     invalidates |-> FALSE, key |-> NoKey, reads |-> {}]

SeriesChildren == {"GRN_WS_WS_TYPE", "GRN_WS_COUNTRY",
                   "GRN_WEB_SERIES_DUBBING", "GRN_WS_SUB_LANG"}
EmployeeHandlers == {
    EmployeeRoute("employee.dashboard", {}, FALSE),
    EmployeeRoute("list_series", {}, FALSE),
    EmployeeRoute("create_series", {"GRN_WEB_SERIES"} \cup SeriesChildren, TRUE),
    EmployeeRoute("edit_series", {"GRN_WEB_SERIES"} \cup SeriesChildren, TRUE),
    EmployeeRoute("delete_series",
                  {"GRN_WEB_SERIES", "GRN_FEEDBACK", "GRN_EPISODE",
                   "GRN_CONTRACT", "GRN_SCHEDULE"} \cup SeriesChildren, TRUE),
    EmployeeRoute("list_episodes", {}, FALSE),
    EmployeeRoute("create_episode", {"GRN_EPISODE"}, TRUE),
    EmployeeRoute("edit_episode", {"GRN_EPISODE"}, TRUE),
    EmployeeRoute("delete_episode", {"GRN_SCHEDULE", "GRN_EPISODE"}, TRUE),
    EmployeeRoute("list_schedules", {}, FALSE),
    EmployeeRoute("create_schedule", {"GRN_SCHEDULE"}, FALSE),
    EmployeeRoute("delete_schedule", {"GRN_SCHEDULE"}, FALSE),
    EmployeeRoute("list_production_houses", {}, FALSE),
    EmployeeRoute("create_production_house", {"GRN_PRODUCTION_HOUSE"}, FALSE),
    EmployeeRoute("edit_production_house", {"GRN_PRODUCTION_HOUSE"}, FALSE),
    EmployeeRoute("delete_production_house",
                  {"GRN_PROD_PROD_HOUSE", "GRN_PRODUCTION_HOUSE"}, FALSE),
    EmployeeRoute("list_producers", {}, FALSE),
    EmployeeRoute("create_producer", {"GRN_PRODUCER"}, FALSE),
    EmployeeRoute("edit_producer", {"GRN_PRODUCER"}, FALSE),
    EmployeeRoute("delete_producer", {"GRN_PROD_PROD_HOUSE", "GRN_PRODUCER"},
                  FALSE),
    EmployeeRoute("list_contracts", {}, FALSE),
    EmployeeRoute("create_contract", {"GRN_CONTRACT"}, FALSE),
    EmployeeRoute("edit_contract", {"GRN_CONTRACT"}, FALSE),
    EmployeeRoute("delete_contract", {"GRN_CONTRACT"}, FALSE),
    EmployeeRoute("list_associations", {}, FALSE),
    EmployeeRoute("create_association", {"GRN_PROD_PROD_HOUSE"}, FALSE),
    EmployeeRoute("delete_association", {"GRN_PROD_PROD_HOUSE"}, FALSE) }

AnalyticsHandlers == {
    AnalyticsRoute("analytics.dashboard", NoKey, {}),
    AnalyticsRoute("top_series_by_viewers", "top_viewers",
                   {"GRN_WEB_SERIES", "GRN_EPISODE"}),
    AnalyticsRoute("top_series_by_rating", "top_rating",
                   {"GRN_WEB_SERIES", "GRN_FEEDBACK"}),
    AnalyticsRoute("series_by_country", "series_by_country",
                   {"GRN_COUNTRY", "GRN_WS_COUNTRY"}),
    AnalyticsRoute("series_by_type", "series_by_type",
                   {"GRN_WEB_SERIES_TYPE", "GRN_WS_WS_TYPE"}),
    AnalyticsRoute("monthly_feedback", "monthly_feedback", {"GRN_FEEDBACK"}),
    AnalyticsRoute("production_house_stats", "ph_stats",
                   {"GRN_PRODUCTION_HOUSE", "GRN_WEB_SERIES", "GRN_EPISODE"}),
    AnalyticsRoute("rating_distribution", "rating_distribution",
                   {"GRN_FEEDBACK"}),
    AnalyticsRoute("top_countries_by_viewers", "top_countries_viewers",
                   {"GRN_COUNTRY", "GRN_WS_COUNTRY", "GRN_WEB_SERIES",
                    "GRN_EPISODE"}),
    AnalyticsRoute("cache_statistics", NoKey, {}),
    AnalyticsRoute("series_performance_report", NoKey,
                   {"GRN_WEB_SERIES", "GRN_PRODUCTION_HOUSE", "GRN_FEEDBACK",
                    "GRN_EPISODE"}),
    AnalyticsRoute("user_engagement_report", NoKey,
                   {"GRN_USER_ACCOUNT", "GRN_COUNTRY", "GRN_FEEDBACK"}) }

\* create_employee: @login_required, @role_required('EMPLOYEE')
create_employee ==
    OtherRoute("create_employee", TRUE, "EMPLOYEE",
               {"GRN_USER_ACCOUNT", "GRN_LOGIN"})

CustomerHandlers == {
    OtherRoute("home", FALSE, NoRole, {}),
    OtherRoute("series_detail", FALSE, NoRole, {}),
    OtherRoute("submit_feedback", TRUE, NoRole, {"GRN_FEEDBACK"}),
    OtherRoute("delete_feedback", TRUE, NoRole, {"GRN_FEEDBACK"}),
    OtherRoute("my_account", TRUE, NoRole, {}),
    OtherRoute("update_account", TRUE, NoRole, {"GRN_USER_ACCOUNT"}) }

\* the employee/admin routes
AdminHandlers == EmployeeHandlers \cup AnalyticsHandlers \cup {create_employee}
Handlers == AdminHandlers \cup CustomerHandlers

\* what the handler's query returns now: the state of the tables it reads
LiveResult(reads) == [t \in reads \cap CachedTables |-> tableVer[t]]
\* the tables a cached query reads, by cache key
ReadsOf(k) == (CHOOSE h \in AnalyticsHandlers : h.key = k).reads

\* role_required that lets every logged-in session through
RoleNotRequired(h, then) ==
    then
\* @role_required(role): session.get('role') != role redirects to customer.home
role_required(h, then) ==
    IF h.role # NoRole /\ session.role # h.role THEN "redirect_home" ELSE then
\* @login_required: 'user_id' not in session redirects to auth.login
login_required(h, then) ==
    IF h.login /\ ~session.user_id THEN "redirect_login" ELSE then
\* the decorators in the order they wrap the handler: login_required outermost
Dispatch(h) == login_required(h, role_required(h, "body"))

NoReq == [h |-> "", session |-> NoSession, outcome |-> "none", wrote |-> FALSE]
RouteInit ==
    /\ session = NoSession
    /\ tableVer = [t \in CachedTables |-> 0]
    /\ lastReq = NoReq

\* POST /login with valid credentials of an account of type ty
Login ==
    /\ \E ty \in LoginTypes : session' = [user_id |-> TRUE, role |-> ty]
    /\ lastReq' = [h |-> "login", session |-> session, outcome |-> "body",
                   wrote |-> FALSE]
    /\ lastOp' = NoOp
    /\ UNCHANGED <<tableVer, _query_cache, _cache_timestamps, now, ticks,
                   dbver, CACHE_ENABLED>>
    /\ UNCHANGED <<txVars, delayVars>>
    /\ UNCHANGED nonRouteExt

\* GET /logout
Logout ==
    /\ session' = NoSession
    /\ lastReq' = [h |-> "logout", session |-> session, outcome |-> "body",
                   wrote |-> FALSE]
    /\ lastOp' = NoOp
    /\ UNCHANGED <<tableVer, _query_cache, _cache_timestamps, now, ticks,
                   dbver, CACHE_ENABLED>>
    /\ UNCHANGED <<txVars, delayVars>>
    /\ UNCHANGED nonRouteExt

\* the handler's body; wr says the request is a valid POST whose write commits.
\* A cached query whose key is outside Keys is run as a query without a key.
Body(h, wr, queryOk) ==
    IF h.key # NoKey
    THEN /\ CachedQuery(IF h.key \in Keys THEN h.key ELSE NoKey, AnalyticsTtl,
                        queryOk, LiveResult(h.reads))
         /\ UNCHANGED tableVer
    ELSE IF wr /\ h.writes # {}
    THEN /\ tableVer' = [t \in CachedTables |->
                            IF t \in h.writes THEN tableVer[t] + 1
                            ELSE tableVer[t]]
         /\ IF h.invalidates
            THEN Invalidate(NoKey)
            ELSE /\ lastOp' = NoOp
                 /\ UNCHANGED <<_query_cache, _cache_timestamps>>
    ELSE /\ lastOp' = NoOp
         /\ UNCHANGED <<tableVer, _query_cache, _cache_timestamps>>

\* one request to a route, as the session's client
Request ==
    /\ \E h \in Handlers :
       \E wr \in (IF h.writes # {} THEN BOOLEAN ELSE {FALSE}),
          queryOk \in (IF h.key # NoKey THEN BOOLEAN ELSE {TRUE}) :
          /\ wr => \A t \in h.writes \cap CachedTables : tableVer[t] < MaxVer
          /\ lastReq' = [h |-> h.name, session |-> session,
                         outcome |-> Dispatch(h),
                         wrote |-> Dispatch(h) = "body" /\ wr /\ h.writes # {}]
          /\ IF Dispatch(h) = "body"
             THEN Body(h, wr, queryOk)
             ELSE /\ lastOp' = NoOp
                  /\ UNCHANGED <<tableVer, _query_cache, _cache_timestamps>>
    /\ UNCHANGED <<session, now, ticks, dbver, CACHE_ENABLED>>
    /\ UNCHANGED <<txVars, delayVars>>
    /\ UNCHANGED nonRouteExt

RouteNext ==
    \/ Login
    \/ Logout
    \/ Request


(***************************************************************************)
(* The request-scoped database connection: get_db, close_db, create_app    *)
(***************************************************************************)
\* requests served by one thread
MaxReqs == 2
\* get_db calls made by one request
MaxCalls == 2
\* worker threads serving requests at the same time
Threads == {"t1", "t2"}
\* 'db' not in g
NoConn == <<>>
\* the functions create_app registers to run when a request's context is
\* torn down: it registers blueprints and error handlers, and no teardown
TeardownFunctions == {}

\* the connections opened by the request that thread t serves now
OpenedBy(t) == {c \in conns : c[1] = t /\ c[2] = req[t].serial}

ConnInit ==
    /\ req = [t \in Threads |->
                [st |-> "idle", serial |-> 0, calls |-> 0, g_db |-> NoConn,
                 returned |-> {}, result |-> "none"]]
    /\ conns = {}
    /\ closed = {}

\* a request arrives at thread t: Flask pushes a new application context
\* with an empty g
BeginRequest(t) ==
    /\ req[t].st \in {"idle", "ended"}
    /\ req[t].serial < MaxReqs
    /\ req' = [req EXCEPT ![t] =
                  [st |-> "running", serial |-> req[t].serial + 1,
                   calls |-> 0, g_db |-> NoConn, returned |-> {},
                   result |-> "none"]]
    /\ UNCHANGED <<conns, closed>>
    /\ UNCHANGED nonConnVars

\* get_db that connects on every call
GetDbAlwaysConnects(t, ok) ==
    IF ok
    THEN LET c == <<t, req[t].serial, Cardinality(OpenedBy(t)) + 1>>
         IN  /\ conns' = conns \cup {c}
             /\ req' = [req EXCEPT ![t].g_db = c,
                                   ![t].returned = @ \cup {c},
                                   ![t].calls = @ + 1]
    ELSE /\ req' = [req EXCEPT ![t].calls = @ + 1]
         /\ UNCHANGED conns

\* get_db() in the request of thread t; ok says whether connect() succeeds
get_db(t, ok) ==
    IF req[t].g_db = NoConn
    THEN IF ok
         THEN LET c == <<t, req[t].serial, Cardinality(OpenedBy(t)) + 1>>
              IN  /\ conns' = conns \cup {c}
                  /\ req' = [req EXCEPT ![t].g_db = c,
                                        ![t].returned = @ \cup {c},
                                        ![t].calls = @ + 1]
         ELSE /\ req' = [req EXCEPT ![t].calls = @ + 1]
              /\ UNCHANGED conns
    ELSE /\ req' = [req EXCEPT ![t].returned = @ \cup {req[t].g_db},
                               ![t].calls = @ + 1]
         /\ UNCHANGED conns

\* execute_query / execute_insert / execute_update / transaction call get_db
GetDb(t) ==
    /\ req[t].st = "running"
    /\ req[t].calls < MaxCalls
    /\ \E ok \in BOOLEAN : get_db(t, ok)
    /\ UNCHANGED closed
    /\ UNCHANGED nonConnVars

\* close_db(): db = g.pop('db', None); if db is not None: db.close()
close_db(t) ==
    IF req[t].g_db # NoConn THEN closed \cup {req[t].g_db} ELSE closed

\* the handler of thread t returns or raises and the request ends: the
\* registered teardown functions run, then the context and its g are dropped
EndOfRequest(t) ==
    /\ req[t].st = "running"
    /\ \E res \in {"returned", "raised"} :
          req' = [req EXCEPT ![t].st = "ended", ![t].result = res,
                             ![t].g_db = NoConn]
    /\ closed' = IF "close_db" \in TeardownFunctions THEN close_db(t)
                 ELSE closed
    /\ UNCHANGED conns
    /\ UNCHANGED nonConnVars

\* the interpreter finalizes a connection object that no g refers to any
\* more, at a time of its choosing
Finalize ==
    /\ \E c \in conns \ closed :
          /\ \A t \in Threads : req[t].g_db # c
          /\ closed' = closed \cup {c}
    /\ UNCHANGED <<req, conns>>
    /\ UNCHANGED nonConnVars

ConnNext ==
    \/ \E t \in Threads : BeginRequest(t)
    \/ \E t \in Threads : GetDb(t)
    \/ \E t \in Threads : EndOfRequest(t)
    \/ Finalize

(***************************************************************************)
(* The cache operations statement by statement, run by two threads         *)
(***************************************************************************)
\* time.time() when the process serves requests: seconds since 1970, more
\* than any ttl, so that a missing timestamp (default 0) is never fresh
StartTime == CACHE_TTL + 1
IdleThread == [pc |-> "idle", key |-> NoKey, current_time |-> 0,
               result |-> NoResult, floor |-> 0, outcome |-> "none"]
Others(t) == Threads \ {t}
Overlaps(t) == overlapped \/ \E u \in Others(t) : thr[u].pc # "idle"
\* the threads that committed a write and have not returned from the
\* invalidate_cache() that follows it
WritersInFlight(t) ==
    {u \in Others(t) : thr[u].pc \in {"pop1", "pop2"} /\ thr[u].result # NoResult}
\* the newest database state whose invalidation has returned when thread t
\* starts a call
Floor(t) == dbver - Cardinality(WritersInFlight(t))

TornInit ==
    /\ thr = [t \in Threads |-> IdleThread]
    /\ overlapped = FALSE

\* execute_cached_query(query, params, cache_key = k) passes line 416 and
\* reads the clock
StartQuery(t) ==
    /\ thr[t].pc = "idle"
    /\ CACHE_ENABLED
    /\ \E k \in Keys :
          thr' = [thr EXCEPT ![t] = [pc |-> "test", key |-> k,
                                     current_time |-> StartTime + now,
                                     result |-> NoResult, floor |-> Floor(t),
                                     outcome |-> "none"]]
    /\ overlapped' = Overlaps(t)
    /\ UNCHANGED <<cacheVars, txVars, delayVars, nonTornExt>>

\* if cache_key in _query_cache
MembershipTest(t) ==
    /\ thr[t].pc = "test"
    /\ thr' = [thr EXCEPT ![t].pc = IF thr[t].key \in DOMAIN _query_cache
                                    THEN "ts" ELSE "live"]
    /\ UNCHANGED <<overlapped, cacheVars, txVars, delayVars, nonTornExt>>

\* cache_time = _cache_timestamps.get(cache_key, 0)
\* if current_time - cache_time < ttl
ReadTimestamp(t) ==
    /\ thr[t].pc = "ts"
    /\ LET cache_time == Get(_cache_timestamps, thr[t].key, 0)
       IN  thr' = [thr EXCEPT ![t].pc =
                      IF thr[t].current_time - cache_time < EffectiveTtl(NoTtl)
                      THEN "value" ELSE "live"]
    /\ UNCHANGED <<overlapped, cacheVars, txVars, delayVars, nonTornExt>>

\* return _query_cache[cache_key]
ReadValue(t) ==
    /\ thr[t].pc = "value"
    /\ thr' = [thr EXCEPT ![t].pc = "idle",
                          ![t].result = Get(_query_cache, thr[t].key, NoResult),
                          ![t].outcome = IF thr[t].key \in DOMAIN _query_cache
                                         THEN "hit" ELSE "KeyError"]
    /\ UNCHANGED <<overlapped, cacheVars, txVars, delayVars, nonTornExt>>

\* result = execute_query(query, params)
LiveQuery(t) ==
    /\ thr[t].pc = "live"
    /\ \E queryOk \in BOOLEAN :
          thr' = IF queryOk
                 THEN [thr EXCEPT ![t].pc = "store", ![t].result = dbver]
                 ELSE [thr EXCEPT ![t].pc = "idle", ![t].outcome = "raised"]
    /\ UNCHANGED <<overlapped, cacheVars, txVars, delayVars, nonTornExt>>

\* _query_cache[cache_key] = result
StoreValue(t) ==
    /\ thr[t].pc = "store"
    /\ _query_cache' = Store(_query_cache, thr[t].key, thr[t].result)
    /\ thr' = [thr EXCEPT ![t].pc = "stamp"]
    /\ UNCHANGED <<_cache_timestamps, now, ticks, dbver, CACHE_ENABLED, lastOp>>
    /\ UNCHANGED <<overlapped, txVars, delayVars, nonTornExt>>

\* _cache_timestamps[cache_key] = current_time; return result
StoreTimestamp(t) ==
    /\ thr[t].pc = "stamp"
    /\ _cache_timestamps' =
          Store(_cache_timestamps, thr[t].key, thr[t].current_time)
    /\ thr' = [thr EXCEPT ![t].pc = "idle", ![t].outcome = "stored"]
    /\ UNCHANGED <<_query_cache, now, ticks, dbver, CACHE_ENABLED, lastOp>>
    /\ UNCHANGED <<overlapped, txVars, delayVars, nonTornExt>>

\* invalidate_cache(cache_key = k) is called
StartInvalidate(t) ==
    /\ thr[t].pc = "idle"
    /\ \E k \in KeyArgs :
          thr' = [thr EXCEPT ![t] = [pc |-> "pop1", key |-> k,
                                     current_time |-> 0, result |-> NoResult,
                                     floor |-> 0, outcome |-> "none"]]
    /\ overlapped' = Overlaps(t)
    /\ UNCHANGED <<cacheVars, txVars, delayVars, nonTornExt>>

\* _query_cache.pop(cache_key, None), or _query_cache = {}
PopResult(t) ==
    /\ thr[t].pc = "pop1"
    /\ _query_cache' = IF thr[t].key # NoKey THEN Pop(_query_cache, thr[t].key)
                       ELSE EmptyDict
    /\ thr' = [thr EXCEPT ![t].pc = "pop2"]
    /\ UNCHANGED <<_cache_timestamps, now, ticks, dbver, CACHE_ENABLED, lastOp>>
    /\ UNCHANGED <<overlapped, txVars, delayVars, nonTornExt>>

\* the second statement of invalidate_cache left out
PopTimestampOmitted(t) ==
    /\ thr[t].pc = "pop2"
    /\ _cache_timestamps' = _cache_timestamps
    /\ thr' = [thr EXCEPT ![t].pc = "idle", ![t].outcome = "invalidated"]
    /\ UNCHANGED <<_query_cache, now, ticks, dbver, CACHE_ENABLED, lastOp>>
    /\ UNCHANGED <<overlapped, txVars, delayVars, nonTornExt>>

\* _cache_timestamps.pop(cache_key, None), or _cache_timestamps = {}
PopTimestamp(t) ==
    /\ thr[t].pc = "pop2"
    /\ _cache_timestamps' = IF thr[t].key # NoKey
                            THEN Pop(_cache_timestamps, thr[t].key)
                            ELSE EmptyDict
    /\ thr' = [thr EXCEPT ![t].pc = "idle", ![t].outcome = "invalidated"]
    /\ UNCHANGED <<_query_cache, now, ticks, dbver, CACHE_ENABLED, lastOp>>
    /\ UNCHANGED <<overlapped, txVars, delayVars, nonTornExt>>

\* a handler such as create_episode commits its write (execute_insert) and
\* calls invalidate_cache()
StartWrite(t) ==
    /\ thr[t].pc = "idle"
    /\ dbver < MaxVer
    /\ dbver' = dbver + 1
    /\ thr' = [thr EXCEPT ![t] = [pc |-> "pop1", key |-> NoKey,
                                  current_time |-> 0, result |-> dbver + 1,
                                  floor |-> 0, outcome |-> "none"]]
    /\ overlapped' = Overlaps(t)
    /\ UNCHANGED <<_query_cache, _cache_timestamps, now, ticks, CACHE_ENABLED,
                   lastOp>>
    /\ UNCHANGED <<txVars, delayVars, nonTornExt>>

TornNext ==
    \/ \E t \in Threads : StartQuery(t)
    \/ \E t \in Threads : MembershipTest(t)
    \/ \E t \in Threads : ReadTimestamp(t)
    \/ \E t \in Threads : ReadValue(t)
    \/ \E t \in Threads : LiveQuery(t)
    \/ \E t \in Threads : StoreValue(t)
    \/ \E t \in Threads : StoreTimestamp(t)
    \/ \E t \in Threads : StartInvalidate(t)
    \/ \E t \in Threads : PopResult(t)
    \/ \E t \in Threads : PopTimestamp(t)

StaleNext ==
    \/ TornNext
    \/ \E t \in Threads : StartWrite(t)

(***************************************************************************)
(* Password reset: forgot_password and reset_password                      *)
(***************************************************************************)
PASSWORD_RESET_EXPIRY_MINUTES == 60
\* values secrets.token_urlsafe(32) returns, each only once
Tokens == {"tokA", "tokB"}
OldPassword == "p0"
NewPasswords == {"p1", "p2"}
\* reset_password requests
MaxResets == 2
\* advances of the clock
MaxClockTicks == 2
ClockDeltas == {1, PASSWORD_RESET_EXPIRY_MINUTES}
NoReset == [seq |-> 0, token |-> "", method |-> "", pw |-> "",
            outcome |-> "none"]

ResetInit ==
    /\ resetTokens = [x \in {} |-> [used |-> FALSE, expires_at |-> 0]]
    /\ password_hash = OldPassword
    /\ clock = 0
    /\ clockTicks = 0
    /\ spent = {}
    /\ lastReset = NoReset

\* UPDATE GRN_PASSWORD_RESET SET USED = 1 WHERE LOGIN_ID = %s AND USED = 0
InvalidateTokens(toks) ==
    [x \in DOMAIN toks |-> [toks[x] EXCEPT !.used = TRUE]]

\* POST /forgot-password for the account; found says the lookup finds it,
\* updOk and insOk whether execute_update and execute_insert succeed
ForgotPassword ==
    /\ ~session.user_id
    /\ \E tk \in Tokens \ DOMAIN resetTokens,
          found \in BOOLEAN, updOk \in BOOLEAN, insOk \in BOOLEAN :
          resetTokens' =
             IF ~found \/ ~updOk THEN resetTokens
             ELSE IF ~insOk THEN InvalidateTokens(resetTokens)
             ELSE [x \in DOMAIN resetTokens \cup {tk} |->
                      IF x = tk
                      THEN [used |-> FALSE,
                            expires_at |-> clock + PASSWORD_RESET_EXPIRY_MINUTES]
                      ELSE InvalidateTokens(resetTokens)[x]]
    /\ UNCHANGED <<password_hash, clock, clockTicks, spent, lastReset>>
    /\ UNCHANGED <<txVars, delayVars, cacheVars, routeVars, connVars, tornVars>>
    /\ UNCHANGED authVars

\* the second statement of the transaction left out
MarkUsedOmitted(toks, tk) ==
    toks
\* UPDATE GRN_PASSWORD_RESET SET USED = 1 WHERE RESET_ID = %s
MarkUsed(toks, tk) ==
    [toks EXCEPT ![tk].used = TRUE]

\* GET or POST /reset-password/<tk>; formOk says the new password passes the
\* form checks, txOk whether the transaction commits
ResetPassword ==
    /\ lastReset.seq < MaxResets
    /\ \E tk \in Tokens, method \in {"GET", "POST"}, pw \in NewPasswords,
          formOk \in BOOLEAN, txOk \in BOOLEAN :
          LET rejected ==
                  IF session.user_id THEN "redirect_home"
                  ELSE IF tk \notin DOMAIN resetTokens THEN "invalid"
                  ELSE IF resetTokens[tk].used THEN "used"
                  ELSE IF resetTokens[tk].expires_at < clock THEN "expired"
                  ELSE IF method = "GET" THEN "form"
                  ELSE IF ~formOk THEN "form_errors"
                  ELSE IF ~txOk THEN "error"
                  ELSE "success"
          IN  /\ lastReset' = [seq |-> lastReset.seq + 1, token |-> tk,
                               method |-> method, pw |-> pw,
                               outcome |-> rejected]
              /\ IF rejected = "success"
                 THEN /\ password_hash' = pw
                      /\ resetTokens' = MarkUsed(resetTokens, tk)
                      /\ spent' = spent \cup {tk}
                 ELSE UNCHANGED <<password_hash, resetTokens, spent>>
    /\ UNCHANGED <<clock, clockTicks>>
    /\ UNCHANGED <<txVars, delayVars, cacheVars, routeVars, connVars, tornVars>>
    /\ UNCHANGED authVars

\* time passes between two requests
ClockTick ==
    /\ clockTicks < MaxClockTicks
    /\ \E d \in ClockDeltas : clock' = clock + d
    /\ clockTicks' = clockTicks + 1
    /\ UNCHANGED <<resetTokens, password_hash, spent, lastReset>>
    /\ UNCHANGED <<txVars, delayVars, cacheVars, routeVars, connVars, tornVars>>
    /\ UNCHANGED authVars

ResetNext ==
    \/ Login
    \/ Logout
    \/ ForgotPassword
    \/ ResetPassword
    \/ ClockTick

(***************************************************************************)
(* forgot_password as a whole: what the client sees                        *)
(***************************************************************************)
\* email_or_username of the form: empty, matching the account, matching none
Identifiers == {"", "alice", "nobody"}
NoForgot == [logged_in |-> FALSE, method |-> "", ident |-> "",
             lookupOk |-> FALSE, found |-> FALSE, created |-> FALSE,
             emailed |-> FALSE, flash |-> "", target |-> ""]
IdleReset == [pc |-> "idle", token |-> "", pw |-> "", record |-> <<>>,
              outcome |-> "none"]

AuthInit ==
    /\ lastForgot = NoForgot
    /\ rthr = [t \in Threads |-> IdleReset]
    /\ changed = {}

\* a handler that tells the client when the token could not be created
ForgotFlashReveals(found, created, emailed) ==
    IF found /\ ~created THEN "error" ELSE "generic"
\* the flash after the lookup: 'If an account with that email or username
\* exists, we have sent password reset instructions.'
ForgotFlash(found, created, emailed) ==
    "generic"

\* GET or POST /forgot-password; lookupOk, updOk, insOk say whether the
\* SELECT, the UPDATE and the INSERT succeed, emailOk whether the mail is sent
ForgotPasswordRequest ==
    /\ \E method \in {"GET", "POST"}, ident \in Identifiers, tk \in Tokens,
          lookupOk \in BOOLEAN, updOk \in BOOLEAN, insOk \in BOOLEAN,
          emailOk \in BOOLEAN :
          LET found == ident = "alice"
              created == found /\ updOk /\ insOk
              emailed == created /\ emailOk
              reached == /\ ~session.user_id
                         /\ method = "POST"
                         /\ ident # ""
                         /\ lookupOk
              resp == IF session.user_id
                      THEN [flash |-> "", target |-> "customer.home"]
                      ELSE IF method = "GET"
                      THEN [flash |-> "", target |-> "forgot_password.html"]
                      ELSE IF ident = ""
                      THEN [flash |-> "enter_identifier",
                            target |-> "forgot_password.html"]
                      ELSE IF ~lookupOk
                      THEN [flash |-> "", target |-> "error_500"]
                      ELSE [flash |-> ForgotFlash(found, created, emailed),
                            target |-> "auth.login"]
          IN  /\ (reached /\ created) => tk \notin DOMAIN resetTokens
              /\ lastForgot' = [logged_in |-> session.user_id,
                                method |-> method, ident |-> ident,
                                lookupOk |-> lookupOk,
                                found |-> reached /\ found,
                                created |-> reached /\ created,
                                emailed |-> reached /\ emailed,
                                flash |-> resp.flash, target |-> resp.target]
              /\ resetTokens' =
                    IF ~reached \/ ~found \/ ~updOk THEN resetTokens
                    ELSE IF ~insOk THEN InvalidateTokens(resetTokens)
                    ELSE [x \in DOMAIN resetTokens \cup {tk} |->
                             IF x = tk
                             THEN [used |-> FALSE,
                                   expires_at |->
                                      clock + PASSWORD_RESET_EXPIRY_MINUTES]
                             ELSE InvalidateTokens(resetTokens)[x]]
    /\ UNCHANGED <<password_hash, clock, clockTicks, spent, lastReset>>
    /\ UNCHANGED <<rthr, changed>>
    /\ UNCHANGED <<txVars, delayVars, cacheVars, routeVars, connVars, tornVars>>

ForgotNext ==
    \/ Login
    \/ Logout
    \/ ForgotPasswordRequest

(***************************************************************************)
(* reset_password POST requests served by two threads at the same time     *)
(***************************************************************************)
\* POST /reset-password/<tk> arrives at thread t from a logged-out client,
\* with a new password that passes the form checks
StartReset(t) ==
    /\ rthr[t].pc = "idle"
    /\ ~session.user_id
    /\ \E tk \in Tokens, pw \in NewPasswords :
          rthr' = [rthr EXCEPT ![t] = [pc |-> "select", token |-> tk,
                                       pw |-> pw, record |-> <<>>,
                                       outcome |-> "none"]]
    /\ UNCHANGED <<lastForgot, changed>>
    /\ UNCHANGED <<txVars, delayVars, cacheVars, routeVars, connVars, tornVars,
                   resetVars>>

\* reset_record = execute_query(SELECT ... WHERE pr.TOKEN = %s)
SelectToken(t) ==
    /\ rthr[t].pc = "select"
    /\ rthr' = [rthr EXCEPT ![t].pc = "check",
                            ![t].record =
                               IF rthr[t].token \in DOMAIN resetTokens
                               THEN <<resetTokens[rthr[t].token]>>
                               ELSE <<>>]
    /\ UNCHANGED <<lastForgot, changed>>
    /\ UNCHANGED <<txVars, delayVars, cacheVars, routeVars, connVars, tornVars,
                   resetVars>>

\* the three checks of the record the SELECT returned
CheckToken(t) ==
    /\ rthr[t].pc = "check"
    /\ LET rec == rthr[t].record
           verdict == IF rec = <<>> THEN "invalid"
                      ELSE IF rec[1].used THEN "used"
                      ELSE IF rec[1].expires_at < clock THEN "expired"
                      ELSE "valid"
       IN  rthr' = IF verdict = "valid"
                   THEN [rthr EXCEPT ![t].pc = "tx"]
                   ELSE [rthr EXCEPT ![t].pc = "done",
                                     ![t].outcome = verdict]
    /\ UNCHANGED <<lastForgot, changed>>
    /\ UNCHANGED <<txVars, delayVars, cacheVars, routeVars, connVars, tornVars,
                   resetVars>>

\* with transaction(): UPDATE GRN_LOGIN SET PASSWORD_HASH; UPDATE
\* GRN_PASSWORD_RESET SET USED = 1; txOk says whether it commits
ResetTransaction(t) ==
    /\ rthr[t].pc = "tx"
    /\ \E txOk \in BOOLEAN :
          IF txOk
          THEN /\ password_hash' = rthr[t].pw
               /\ resetTokens' = MarkUsed(resetTokens, rthr[t].token)
               /\ spent' = spent \cup {rthr[t].token}
               /\ changed' = changed \cup {t}
               /\ rthr' = [rthr EXCEPT ![t].pc = "done",
                                       ![t].outcome = "success"]
          ELSE /\ rthr' = [rthr EXCEPT ![t].pc = "done",
                                       ![t].outcome = "error"]
               /\ UNCHANGED <<password_hash, resetTokens, spent, changed>>
    /\ UNCHANGED <<clock, clockTicks, lastReset, lastForgot>>
    /\ UNCHANGED <<txVars, delayVars, cacheVars, routeVars, connVars, tornVars>>

RaceNext ==
    \/ ForgotPassword
    \/ ClockTick
    \/ \E t \in Threads : StartReset(t)
    \/ \E t \in Threads : SelectToken(t)
    \/ \E t \in Threads : CheckToken(t)
    \/ \E t \in Threads : ResetTransaction(t)

(***************************************************************************)
(* Specifications                                                          *)
(***************************************************************************)
ExtInit == RouteInit /\ ConnInit /\ TornInit /\ ResetInit /\ AuthInit
Init == TxInit /\ DelayInit /\ CacheInit /\ ExtInit
\* the default configuration: CACHE_ENABLED is 'true'
InitEnabled == Init /\ CACHE_ENABLED = TRUE

\* requests that use transaction()
Spec == InitEnabled /\ [][TxNext]_vars
\* calls of _calculate_retry_delay
SpecDelay == InitEnabled /\ [][CalculateRetryDelay]_vars
\* cache operations executed one at a time
SpecCache == Init /\ [][CacheNext]_vars
\* requests to the route handlers, with the default configuration
SpecRoutes == InitEnabled /\ [][RouteNext]_vars
\* requests served by the worker threads, each with its own flask.g
SpecConn == InitEnabled /\ [][ConnNext]_vars
\* two threads running cache operations with no lock between them
SpecTorn == InitEnabled /\ [][TornNext]_vars
\* password-reset requests served one after the other
SpecReset == InitEnabled /\ [][ResetNext]_vars
\* forgot_password requests of logged-in and logged-out clients
SpecForgot == InitEnabled /\ [][ForgotNext]_vars
\* cache readers and a writer that commits and then invalidates
SpecStale == InitEnabled /\ [][StaleNext]_vars
\* one reset_password POST per thread, the threads interleaved
SpecRace == InitEnabled /\ [][RaceNext]_vars

(***************************************************************************)
(* Properties of transaction()                                             *)
(***************************************************************************)
\* a lock-conflict error, as the claims define it: a database error whose code
\* is 1213 (deadlock) or 1205 (lock-wait timeout)
IsLockConflict(o) ==
    /\ o.cls = "Error"
    /\ o.errno \in {MYSQL_ERROR_DEADLOCK, MYSQL_ERROR_LOCK_WAIT_TIMEOUT}
Finished == pc = "done"
Has(seg, ev) == \E i \in DOMAIN seg : seg[i] = ev

\* the calls of the trace, grouped by the execution of the block they follow
RECURSIVE Split(_)
Split(s) ==
    IF s = <<>> THEN <<>>
    ELSE LET front == SubSeq(s, 1, Len(s) - 1)
             ev == s[Len(s)]
             segs == Split(front)
         IN  IF ev = "exec" THEN Append(segs, <<>>)
             ELSE IF segs = <<>> THEN segs
             ELSE [segs EXCEPT ![Len(segs)] = Append(@, ev)]

\* C1: when the block raises a lock-conflict error the wrapper rolls back and
\* executes the block again, until an execution completes normally or 3
\* executions have been made: a finished use whose last execution raised a
\* lock conflict has executed the block 3 times, each re-execution after a
\* rollback.
C1_RetriesWholeBlock ==
    Finished /\ IsLockConflict(block[execs]) =>
        /\ execs = DEADLOCK_MAX_RETRIES
        /\ rollbacks = execs

\* C2: a block that raises a lock conflict on its 1st and 2nd execution and
\* completes on its 3rd is executed exactly 3 times, with 2 retries and one
\* commit, and the with-statement raises nothing.
C2_SucceedsOnThird ==
    ( /\ Finished
      /\ IsLockConflict(block[1])
      /\ IsLockConflict(block[2])
      /\ block[3] = NoExc ) =>
        /\ execs = 3
        /\ retries = 2
        /\ commits = 1
        /\ raised = NoExc

\* C3: a block that raises a lock conflict on every execution makes the
\* with-statement raise DeadlockError after the 3rd execution, every execution
\* rolled back, no commit called and none of the block's writes committed.
C3_ExhaustedRaisesDeadlockError ==
    (Finished /\ \A i \in 1..DEADLOCK_MAX_RETRIES : IsLockConflict(block[i])) =>
        /\ raised = DeadlockError
        /\ execs = DEADLOCK_MAX_RETRIES
        /\ rollbacks = DEADLOCK_MAX_RETRIES
        /\ commits = 0
        /\ committed \cap BlockWrites(use) = {}

\* what C4 promises of a use whose block raised block[1]
NoRetryOf(e) ==
    /\ rollbacks = 1
    /\ sleeps = 0
    /\ execs = 1
    /\ commits = 0
    /\ raised = e

C6_AllOrNothing ==
    \A u \in 1..MaxUses :
        \/ committed \cap BlockWrites(u) = {}
        \/ BlockWrites(u) \subseteq committed

\* a second use has failed under a lock conflict after some but not all of its
\* statements, while the first use was committed in full
C6_Witness ==
    /\ Finished
    /\ use = 2
    /\ raised = RuntimeError
    /\ stmtIdx > 0
    /\ stmtIdx < NStmts
    /\ BlockWrites(1) \subseteq committed
    /\ committed \cap BlockWrites(2) = {}

\* C8: in a finished use the block was executed at most 3 times and the wrapper
\* slept at most twice, each sleep between two executions of the block.
C8_SleepsOnlyBetweenAttempts ==
    Finished =>
        /\ execs <= DEADLOCK_MAX_RETRIES
        /\ sleeps <= DEADLOCK_MAX_RETRIES - 1
        /\ \A i \in DOMAIN trace :
              trace[i] = "sleep" =>
                  /\ \E j \in 1..(i - 1) : trace[j] = "exec"
                  /\ \E j \in (i + 1)..Len(trace) : trace[j] = "exec"

(***************************************************************************)
(* Properties of _calculate_retry_delay                                    *)
(***************************************************************************)
\* C7: the delay of attempt N lies between min(base*2^N*0.75, max) and
\* min(base*2^N*1.25, max); it is never negative and never above max.
C7_DelayWithinJitterBounds ==
    dCalled =>
        LET nominal == DEADLOCK_RETRY_BASE_DELAY * Pow2(dAttempt)
            cap == DEADLOCK_RETRY_MAX_DELAY * DelayUnit
        IN  /\ Min(nominal * 3 * JitterSteps, cap) <= dDelay
            /\ dDelay <= Min(nominal * 5 * JitterSteps, cap)
            /\ 0 <= dDelay
            /\ dDelay <= cap

\* a call for attempt 4, where even the smallest jittered delay (1.2 s) is
\* above the maximum, returned the maximum
C7_Witness ==
    /\ dCalled
    /\ dAttempt = 4
    /\ dRandom = 0
    /\ UncappedRetryDelay(dAttempt, dRandom) > DEADLOCK_RETRY_MAX_DELAY * DelayUnit
    /\ dDelay = DEADLOCK_RETRY_MAX_DELAY * DelayUnit

(***************************************************************************)
(* Properties of the query cache                                           *)
(***************************************************************************)
\* C9: with caching enabled and a key given, a call for a key whose entry is
\* younger than the TTL returns the stored result without executing the query
\* and leaves the cache as it is; a call for a key whose entry has reached the
\* TTL executes the query, returns its result and stores it with the current
\* time.
C9_FreshHitStaleRefetch ==
    [][ (lastOp'.op = "query" /\ CACHE_ENABLED /\ lastOp'.key \in DOMAIN _query_cache) =>
          LET k == lastOp'.key
              age == now - _cache_timestamps[k]
              T == IF lastOp'.ttl = NoTtl THEN CACHE_TTL ELSE lastOp'.ttl
          IN  /\ age < T =>
                    /\ lastOp'.ret = _query_cache[k]
                    /\ ~lastOp'.executed
                    /\ _query_cache' = _query_cache
                    /\ _cache_timestamps' = _cache_timestamps
              /\ age >= T => lastOp'.executed
              /\ (age >= T /\ ~lastOp'.raised) =>
                    /\ lastOp'.ret = dbver
                    /\ _query_cache'[k] = dbver
                    /\ _cache_timestamps'[k] = now
    ]_vars

\* a call 299 time units after the entry was stored, with TTL 300, returned
\* the stored result although the data had changed since
C9_Witness ==
    /\ lastOp.op = "query"
    /\ lastOp.key \in Keys
    /\ lastOp.ttl = CACHE_TTL
    /\ lastOp.present
    /\ ~lastOp.executed
    /\ now - _cache_timestamps[lastOp.key] = LongTick
    /\ lastOp.ret = _query_cache[lastOp.key]
    /\ lastOp.ret # dbver

\* C10: invalidate_cache(k) removes the result and the timestamp of k and
\* leaves every other entry as it was (nothing changes when k is absent);
\* invalidate_cache() leaves no entry at all.
C10_InvalidateRemovesOnlyKey ==
    [][ lastOp'.op = "invalidate" =>
          LET k == lastOp'.key
          IN  IF k # NoKey
              THEN /\ DOMAIN _query_cache' = (DOMAIN _query_cache) \ {k}
                   /\ DOMAIN _cache_timestamps' = (DOMAIN _cache_timestamps) \ {k}
                   /\ \A x \in DOMAIN _query_cache' :
                         _query_cache'[x] = _query_cache[x]
                   /\ \A x \in DOMAIN _cache_timestamps' :
                         _cache_timestamps'[x] = _cache_timestamps[x]
                   /\ k \notin DOMAIN _query_cache =>
                         _query_cache' = _query_cache
              ELSE /\ DOMAIN _query_cache' = {}
                   /\ DOMAIN _cache_timestamps' = {}
                   /\ get_cache_stats' = [entries |-> 0, keys |-> {}]
    ]_vars

\* invalidate_cache("top_rating") removed that entry and left the entry of
\* "ph_stats" in both maps
C10_Witness ==
    /\ lastOp.op = "invalidate"
    /\ lastOp.key = "top_rating"
    /\ lastOp.present
    /\ DOMAIN _query_cache = {"ph_stats"}
    /\ DOMAIN _cache_timestamps = {"ph_stats"}

\* C11: after any completed write request, a later execute_cached_query never
\* returns an entry computed before that write: what an analytics endpoint
\* returns from the cache is what its query returns now
C11_NoStaleEntryAfterWrite ==
    (lastOp.op = "query" /\ lastOp.key \in Keys /\ ~lastOp.raised)
        => lastOp.ret = LiveResult(ReadsOf(lastOp.key))

AdminNames == {h.name : h \in AdminHandlers}
IsEmployeeSession(ses) == ses.user_id /\ ses.role = "EMPLOYEE"
\* C17: the body of an employee/admin route executes only for a session with
\* user_id and role 'EMPLOYEE'; for any other session the request is
\* redirected and writes nothing
C17_AdminBodyOnlyForEmployee ==
    [][(lastReq'.h \in AdminNames /\ ~IsEmployeeSession(session))
          => /\ lastReq'.outcome \in {"redirect_login", "redirect_home"}
             /\ ~lastReq'.wrote
             /\ tableVer' = tableVer
             /\ _query_cache' = _query_cache]_vars
\* a customer's request to an employee route was redirected
C17_Witness ==
    /\ lastReq.h = "create_production_house"
    /\ lastReq.session.user_id
    /\ lastReq.session.role = "CUSTOMER"
    /\ lastReq.outcome = "redirect_home"

\* C12: whenever the key has no fresh entry (absent, expired or invalidated)
\* the call executes the live query and returns its result; the call raises
\* only when the live query raises, and what it returns is either a fresh
\* cached result or the live query's result
C12_MissFallsBackToLiveQuery ==
    [][ lastOp'.op = "query" =>
          LET k == lastOp'.key
              T == IF lastOp'.ttl = NoTtl THEN CACHE_TTL ELSE lastOp'.ttl
              fresh == /\ CACHE_ENABLED
                       /\ k \in DOMAIN _query_cache
                       /\ now - _cache_timestamps[k] < T
          IN  /\ ~fresh => lastOp'.executed
              /\ (~fresh /\ ~lastOp'.raised) => lastOp'.ret = dbver
              /\ lastOp'.raised => lastOp'.executed
              /\ ~lastOp'.raised =>
                    \/ lastOp'.ret = dbver
                    \/ fresh /\ lastOp'.ret = _query_cache[k]
    ]_vars

\* a call found an expired entry, executed the live query and returned the
\* changed data
C12_Witness ==
    /\ lastOp.op = "query"
    /\ CACHE_ENABLED
    /\ lastOp.key \in Keys
    /\ lastOp.present
    /\ lastOp.executed
    /\ ~lastOp.raised
    /\ dbver > 0
    /\ lastOp.ret = dbver

\* C20: with caching disabled or without a cache key, execute_cached_query
\* executes the live query, returns its result, and leaves the cached keys,
\* results and timestamps as they were
C20_NoCacheUseWhenDisabledOrNoKey ==
    [][ (lastOp'.op = "query" /\ (~CACHE_ENABLED \/ lastOp'.key = NoKey)) =>
          /\ lastOp'.executed
          /\ ~lastOp'.raised => lastOp'.ret = dbver
          /\ _query_cache' = _query_cache
          /\ _cache_timestamps' = _cache_timestamps
    ]_vars

\* a call without a key ran the live query while the cache held an entry
C20_Witness ==
    /\ lastOp.op = "query"
    /\ lastOp.key = NoKey
    /\ lastOp.executed
    /\ DOMAIN _query_cache # {}
    /\ \E k \in DOMAIN _query_cache : _query_cache[k] # lastOp.ret

\* C13: the connection opened for a request is closed when the request ends,
\* whether the handler returned or raised: no connection opened by a request
\* that has finished remains open
C13_ClosedAtRequestEnd ==
    \A c \in conns :
        (req[c[1]].serial > c[2] \/ req[c[1]].st = "ended") => c \in closed

\* C14: a request opens no connection before its first get_db call and at most
\* one in all; every get_db call of the request returns that one connection;
\* two different requests never share a connection
C14_OneConnectionPerRequest ==
    /\ \A t \in Threads :
          /\ Cardinality(OpenedBy(t)) <= 1
          /\ req[t].calls = 0 => OpenedBy(t) = {}
          /\ Cardinality(req[t].returned) <= 1
          /\ req[t].returned \subseteq OpenedBy(t)
          /\ req[t].g_db # NoConn => req[t].returned = {req[t].g_db}
    /\ \A t, u \in Threads :
          t # u => req[t].returned \cap req[u].returned = {}
    /\ \A c \in conns : c[3] = 1

\* a request called get_db twice and got the one connection it opened, while
\* another request holds a connection of its own
C14_Witness ==
    \E t, u \in Threads :
        /\ t # u
        /\ req[t].st = "running"
        /\ req[t].calls = MaxCalls
        /\ OpenedBy(t) = {req[t].g_db}
        /\ req[u].g_db # NoConn
        /\ req[u].g_db # req[t].g_db

AllIdle == \A t \in Threads : thr[t].pc = "idle"
\* C15: the cache operations are not atomic with respect to each other. As
\* long as no two operations ran at the same time no call fails with KeyError
\* and, between operations, the two maps hold the same keys; the failures
\* the claim names come from interleaving and C15_Witness reaches them
C15_TornOnlyByInterleaving ==
    ~overlapped =>
        /\ \A t \in Threads : thr[t].outcome # "KeyError"
        /\ AllIdle => DOMAIN _query_cache = DOMAIN _cache_timestamps

\* a reader failed on the key it had just found present, and with both
\* threads idle the result map and the timestamp map hold different keys
C15_Witness ==
    /\ overlapped
    /\ \E t \in Threads : thr[t].outcome = "KeyError"
    /\ AllIdle
    /\ DOMAIN _query_cache # DOMAIN _cache_timestamps

\* C16: a reset token is accepted only if it exists, is not marked used and
\* has not expired; a successful reset marks it used together with the
\* password update; once a request has changed the password with a token,
\* every later request with that token is rejected and changes nothing
C16_TokenSingleUse ==
    [][ lastReset'.seq # lastReset.seq =>
          LET tk == lastReset'.token
              valid == /\ tk \in DOMAIN resetTokens
                       /\ ~resetTokens[tk].used
                       /\ ~(resetTokens[tk].expires_at < clock)
          IN  /\ lastReset'.outcome \in {"form", "form_errors", "error",
                                         "success"} => valid
              /\ password_hash' # password_hash =>
                    lastReset'.outcome = "success"
              /\ lastReset'.outcome = "success" =>
                    /\ password_hash' = lastReset'.pw
                    /\ resetTokens'[tk].used
              /\ tk \in spent =>
                    /\ lastReset'.outcome \in {"used", "redirect_home"}
                    /\ password_hash' = password_hash
                    /\ resetTokens' = resetTokens
    ]_vars

\* a second POST with a token that had already changed the password was
\* rejected and left the password as the first reset set it
C16_Witness ==
    /\ lastReset.token \in spent
    /\ lastReset.method = "POST"
    /\ lastReset.outcome = "used"
    /\ lastReset.pw # password_hash
    /\ password_hash \in NewPasswords

\* the rows the block of register and create_employee inserts, in its order
AccountRow(u) == <<u, 1>>
LoginRow(u) == <<u, 2>>
\* C18: whether the request succeeded, failed on the first insert or failed on
\* the second, the GRN_USER_ACCOUNT row and the GRN_LOGIN row of the new user
\* are both committed or neither is
C18_AccountAndLoginTogether ==
    \A u \in 1..MaxUses :
        AccountRow(u) \in committed <=> LoginRow(u) \in committed

\* a registration failed on its second insert with a duplicate-key error and
\* its account row was not committed
C18_Witness ==
    /\ Finished
    /\ stmtIdx = 1
    /\ exc = [cls |-> "Error", errno |-> OtherErrno]
    /\ raised = exc
    /\ rollbacks = 1
    /\ AccountRow(use) \notin committed
    /\ LoginRow(use) \notin committed

\* C19: an exception is treated as a lock conflict (recorded as the last
\* lock-conflict error, slept on and retried) exactly when it is a database
\* Error with errno 1213 or 1205; an Error with another errno and an exception
\* of another class, whatever its errno, is never retried
C19_LockConflictClassification ==
    /\ (last_exception # NoExc \/ sleeps > 0 \/ retries > 0 \/ pc = "sleep")
          => IsLockConflict(exc)
    /\ (Finished /\ IsLockConflict(exc))
          => last_exception = exc /\ sleeps = 1
    /\ (Finished /\ exc # NoExc /\ ~IsLockConflict(exc))
          => /\ last_exception = NoExc
             /\ sleeps = 0
             /\ retries = 0
             /\ raised = exc

\* a lock-wait timeout, errno 1205, was taken for a lock conflict and slept on
C19_Witness ==
    /\ pc = "continue"
    /\ exc = [cls |-> "Error", errno |-> MYSQL_ERROR_LOCK_WAIT_TIMEOUT]
    /\ last_exception = exc
    /\ sleeps = 1

\* C24: after every sequence of execute_cached_query and invalidate_cache
\* calls executed one at a time the result map and the timestamp map hold
\* the same keys, and get_cache_stats reports exactly that set
C24_MapsHoldSameKeys ==
    /\ DOMAIN _query_cache = DOMAIN _cache_timestamps
    /\ get_cache_stats.keys = DOMAIN _cache_timestamps
    /\ get_cache_stats.entries = Cardinality(DOMAIN _cache_timestamps)

\* a miss stored the second key: both maps hold both keys
C24_Witness ==
    /\ lastOp.op = "query"
    /\ lastOp.executed
    /\ ~lastOp.present
    /\ DOMAIN _query_cache = Keys
    /\ DOMAIN _cache_timestamps = Keys
    /\ get_cache_stats.entries = Cardinality(Keys)

\* C25: when the live query of a miss raises, the call raises and the cache
\* is as before: no entry is created, and an expired entry keeps its old
\* result and its old timestamp
C25_FailedQueryLeavesCache ==
    [][ (lastOp'.op = "query" /\ lastOp'.raised) =>
          /\ lastOp'.executed
          /\ lastOp'.ret = NoResult
          /\ _query_cache' = _query_cache
          /\ _cache_timestamps' = _cache_timestamps
    ]_vars

\* the live query raised on an expired entry, which still holds the result
\* and the timestamp it had
C25_Witness ==
    /\ lastOp.op = "query"
    /\ lastOp.raised
    /\ lastOp.present
    /\ lastOp.key \in DOMAIN _query_cache
    /\ _query_cache[lastOp.key] # dbver
    /\ now - _cache_timestamps[lastOp.key] >= CACHE_TTL

\* C21: for a non-empty identifier submitted by a logged-out client the flash
\* message and the redirect target of forgot_password are the same whether or
\* not an account matches and whether or not the token creation or the email
\* failed: they are one fixed response, and when the lookup itself fails the
\* response is the error page in either case
C21_SameResponseWhateverTheAccount ==
    (lastForgot.method = "POST" /\ ~lastForgot.logged_in
        /\ lastForgot.ident # "")
        => IF lastForgot.lookupOk
           THEN /\ lastForgot.flash = "generic"
                /\ lastForgot.target = "auth.login"
           ELSE /\ lastForgot.flash = ""
                /\ lastForgot.target = "error_500"

\* the account matched and the token could not be stored, and the client got
\* the response it gets for an unknown identifier
C21_Witness ==
    /\ lastForgot.method = "POST"
    /\ ~lastForgot.logged_in
    /\ lastForgot.found
    /\ ~lastForgot.created
    /\ lastForgot.flash = "generic"
    /\ lastForgot.target = "auth.login"

\* C22: of two concurrent reset_password POST requests carrying the same
\* valid token at most one changes the password
C22_AtMostOneResetPerToken ==
    \A t, u \in changed : t # u => rthr[t].token # rthr[u].token

\* C23: once invalidate_cache() has returned after a committed write, no call
\* of execute_cached_query that starts later returns a result computed from
\* the database state before that write
C23_NoStaleResultAfterInvalidate ==
    \A t \in Threads :
        thr[t].outcome \in {"hit", "stored"} => thr[t].result >= thr[t].floor
====
